---- MODULE Spec2Model ----
(***************************************************************************)
(* Model of the static-map builder (staticmap-builder/src/lib.rs) and of   *)
(* the histogram (src/hist.rs).                                            *)
(*                                                                         *)
(* Builder: the Robin Hood table of Builder<K, S>, with the probing loop   *)
(* of Builder::insert taken one iteration at a time.                       *)
(* Hist: the dense vector of counts and its Display rendering.             *)
(*                                                                         *)
(* Vectors are 0-indexed in the source and 1-indexed here: slot i of the   *)
(* source is element i + 1 of the sequence (see At and Put).               *)
(***************************************************************************)
EXTENDS Integers, Sequences, FiniteSets, Bags, TLC

VARIABLES
    pc,          \* "new": not yet constructed; "idle": between calls; "loop": inside the loop of insert
    hashes,      \* Builder.hashes
    entries,     \* Builder.entries
    hash,        \* insert: local `hash` (the hash of the carried candidate)
    entry,       \* insert: local `entry` (the carried candidate)
    pos,         \* insert: local `pos`
    dist,        \* insert: local `dist`
    ret,         \* the value returned by the last insert that returned
    expected,    \* history: the `size` argument given to with_capacity
    calls,       \* history: number of insert calls started
    inserted,    \* history: bag of the (key, value) pairs passed to insert
    filled,      \* history: slots into which insert has written an entry
    fullAtCall,  \* history: every slot was occupied when the current/last call started
    origKey,     \* history: key passed to the current/last call
    origSlot,    \* history: slot where the entry of the current/last call was written (-1: not yet)
    swapped,     \* history: the current/last call has swapped its candidate
    before,      \* history: hashes and entries when the current/last call started
    counts,      \* Hist.0
    recorded,    \* history: the values passed to Hist::insert, in call order
    avg          \* the value returned by average() on the current histogram, if it was called

builderVars == <<pc, hashes, entries, hash, entry, pos, dist, ret, expected,
                 calls, inserted, filled, fullAtCall, origKey, origSlot, swapped,
                 before>>
histVars == <<counts, recorded, avg>>
vars == <<builderVars, histVars>>

(***************************************************************************)
(* Bounds of the model.                                                    *)
(***************************************************************************)
\* Largest expected entry count given to with_capacity in SpecCap.
MaxExpected == 1000
\* The expected entry count with which the table of Spec is constructed.
BuilderExpected == 28
\* Number of insert calls, per behaviour, whose pair is not the fill pair.
MaxOther == 1
\* Hist: longest sequence of insert calls and largest value recorded.
MaxRecorded == 5
MaxValue == 5

(***************************************************************************)
(* usize arithmetic.  TLC's integers are 32-bit, so the word is modelled   *)
(* with 30 bits; every table size of the model divides 2^30 as it divides  *)
(* 2^64, so masking a wrapped difference gives the same slot.              *)
(***************************************************************************)
UsizeModulus == 2^30
UsizeMax == UsizeModulus - 1

RECURSIVE BitAnd(_, _)
BitAnd(a, b) ==
    IF a = 0 \/ b = 0 THEN 0
    ELSE (a % 2) * (b % 2) + 2 * BitAnd(a \div 2, b \div 2)

WrappingSub(a, b) == (a - b) % UsizeModulus

RECURSIVE PowerOfTwoFrom(_, _)
PowerOfTwoFrom(p, n) == IF p >= n THEN p ELSE PowerOfTwoFrom(2 * p, n)

\* usize::next_power_of_two: the smallest power of two >= n (1 for n = 0).
NextPowerOfTwo(n) == PowerOfTwoFrom(1, n)

Max(a, b) == IF a >= b THEN a ELSE b

At(seq, i) == seq[i + 1]
Put(seq, i, x) == [seq EXCEPT ![i + 1] = x]

(***************************************************************************)
(* Keys, values and the caller-supplied hash function.                     *)
(***************************************************************************)
MIN_TABLE_SIZE == 32

\* K::default() and String::default()
DefaultKey == 0
DefaultValue == ""
DefaultEntry == [key |-> DefaultKey, value |-> DefaultValue]

Keys == 0 .. 5

\* hasher.finish() as usize, for the S of the model: key 0 hashes to 0,
\* keys 2 and 3 to multiples of the table size, key 4 to the largest usize.
RawHash(key) ==
    CASE key = 0 -> 0
      [] key = 1 -> 1
      [] key = 2 -> MIN_TABLE_SIZE
      [] key = 3 -> 2 * MIN_TABLE_SIZE
      [] key = 4 -> UsizeMax
      [] OTHER   -> MIN_TABLE_SIZE + 2

\* Variant of Remap: the hash is stored as computed.
RemapIdentity(h) == h

\* Builder::hash, line 107
Remap(h) == IF h = 0 THEN 1 ELSE h

\* Builder::hash
Hash(key) == Remap(RawHash(key))

\* The pairs given to insert: every key with the value "v", the pair equal to
\* the default entry, and a second value for key 1.  FillPair may be inserted
\* without limit, the other pairs MaxOther times in all.
FillPair == [key |-> 2, value |-> "v"]
Pairs == {[key |-> k, value |-> "v"] : k \in Keys \ {DefaultKey}}
             \cup {DefaultEntry, [key |-> 1, value |-> "w"]}

(***************************************************************************)
(* Builder::with_capacity                                                  *)
(***************************************************************************)
\* Variant of Capacity: the minimum table size is not applied.
CapacityNoMinimum(size) == NextPowerOfTwo((size * 10) \div 9)

\* Variant of Capacity: the table is sized for the expected count itself.
CapacityNoHeadroom(size) == Max(NextPowerOfTwo(size), MIN_TABLE_SIZE)

\* line 30
Capacity(size) == Max(NextPowerOfTwo((size * 10) \div 9), MIN_TABLE_SIZE)

Init ==
    /\ pc = "new"
    /\ hashes = <<>>
    /\ entries = <<>>
    /\ hash = 0
    /\ entry = DefaultEntry
    /\ pos = 0
    /\ dist = 0
    /\ ret = 0
    /\ expected = 0
    /\ calls = 0
    /\ inserted = EmptyBag
    /\ filled = {}
    /\ fullAtCall = FALSE
    /\ origKey = DefaultKey
    /\ origSlot = -1
    /\ swapped = FALSE
    /\ before = [hashes |-> <<>>, entries |-> <<>>]
    /\ counts = <<>>
    /\ recorded = <<>>
    /\ avg = [kind |-> "none", num |-> 0, den |-> 0]

WithCapacity(size) ==
    /\ pc = "new"
    /\ LET cap == Capacity(size) IN
        /\ entries' = [i \in 1 .. cap |-> DefaultEntry]
        /\ hashes' = [i \in 1 .. cap |-> 0]
    /\ expected' = size
    /\ pc' = "idle"
    /\ UNCHANGED <<hash, entry, pos, dist, ret, calls, inserted, filled,
                   fullAtCall, origKey, origSlot, swapped, before, histVars>>

(***************************************************************************)
(* Builder::insert                                                         *)
(***************************************************************************)
Mask == Len(entries) - 1

\* Variant of FoundEmpty: the probe also stops after a full round of the table.
FoundEmptyOrRoundDone(probe_hash) == probe_hash = 0 \/ dist >= Len(hashes)

\* line 59
FoundEmpty(probe_hash) == probe_hash = 0

\* line 69
ProbeDist(p, probe_hash, mask) == BitAnd(WrappingSub(p, probe_hash), mask)

\* Variant of Richer: the comparison is reversed.
RicherReversed(probe_dist, d) == probe_dist > d

\* Variant of Richer: an occupant as far from home as the candidate yields too.
RicherOrEqual(probe_dist, d) == probe_dist <= d

\* line 71
Richer(probe_dist, d) == probe_dist < d

\* Variant of NextPos: the mask is missing.
NextPosUnmasked(p, mask) == p + 1

\* Variant of NextPos: the probe moves two slots.
NextPosSkip(p, mask) == BitAnd(p + 2, mask)

\* Variant of NextPos: the increment is missing.
NextPosStuck(p, mask) == BitAnd(p, mask)

\* line 78
NextPos(p, mask) == BitAnd(p + 1, mask)

Occupied == {i \in 0 .. Len(hashes) - 1 : At(hashes, i) # 0}

OtherCount == BagCardinality(inserted) - CopiesIn(FillPair, inserted)

\* lines 45-53: the call, up to the loop
InsertCall(key, value) ==
    /\ pc = "idle"
    /\ [key |-> key, value |-> value] # FillPair => OtherCount < MaxOther
    /\ hash' = Hash(key)
    /\ pos' = BitAnd(Hash(key), Mask)
    /\ dist' = 0
    /\ entry' = [key |-> key, value |-> value]
    /\ pc' = "loop"
    /\ calls' = calls + 1
    /\ inserted' = inserted (+) SetToBag({[key |-> key, value |-> value]})
    /\ fullAtCall' = (Cardinality(Occupied) = Len(hashes))
    /\ origKey' = key
    /\ origSlot' = -1
    /\ swapped' = FALSE
    /\ before' = [hashes |-> hashes, entries |-> entries]
    /\ UNCHANGED <<hashes, entries, ret, expected, filled, histVars>>

\* lines 59-64: an empty bucket; place the candidate and return
PlaceAndReturn ==
    /\ pc = "loop"
    /\ FoundEmpty(At(hashes, pos))
    /\ hashes' = Put(hashes, pos, hash)
    /\ entries' = Put(entries, pos, entry)
    /\ ret' = dist
    /\ pc' = "idle"
    /\ filled' = filled \cup {pos}
    /\ origSlot' = IF ~swapped THEN pos ELSE origSlot
    \* the locals die with the call
    /\ hash' = 0
    /\ entry' = DefaultEntry
    /\ pos' = 0
    /\ dist' = 0
    /\ UNCHANGED <<expected, calls, inserted, fullAtCall, origKey, swapped, before,
                   histVars>>

\* Variant of SwapHashes: the bucket's hash is taken and 0 is left behind.
SwapHashesCleared(p) == Put(hashes, p, 0)

\* Variant of DistAfterSwap: dist is not set to the distance of the evicted entry.
DistKept(probe_dist) == dist + 1

\* lines 75 and 79: dist after a swap and the increment
DistAfterSwap(probe_dist) == probe_dist + 1

\* Variant of SwapEntries: the candidate is not written into the bucket.
SwapEntriesDropped(p) == entries

\* lines 72-74: the two mem::swap calls
SwapHashes(p) == Put(hashes, p, hash)
SwapEntries(p) == Put(entries, p, entry)
CarriedHash(p) == At(hashes, p)
CarriedEntry(p) == At(entries, p)

\* lines 69-79 with the branch of line 71 taken
SwapAndAdvance ==
    /\ pc = "loop"
    /\ ~FoundEmpty(At(hashes, pos))
    /\ LET probe_dist == ProbeDist(pos, At(hashes, pos), Mask) IN
        /\ Richer(probe_dist, dist)
        /\ entries' = SwapEntries(pos)
        /\ entry' = CarriedEntry(pos)
        /\ hashes' = SwapHashes(pos)
        /\ hash' = CarriedHash(pos)
        /\ dist' = DistAfterSwap(probe_dist)
    /\ pos' = NextPos(pos, Mask)
    /\ filled' = filled \cup {pos}
    /\ origSlot' = IF ~swapped THEN pos ELSE origSlot
    /\ swapped' = TRUE
    /\ UNCHANGED <<pc, ret, expected, calls, inserted, fullAtCall, origKey, before,
                   histVars>>

\* lines 69-79 with the branch of line 71 not taken
Advance ==
    /\ pc = "loop"
    /\ ~FoundEmpty(At(hashes, pos))
    /\ ~Richer(ProbeDist(pos, At(hashes, pos), Mask), dist)
    /\ pos' = NextPos(pos, Mask)
    /\ dist' = dist + 1
    /\ UNCHANGED <<pc, hashes, entries, hash, entry, ret, expected, calls, inserted,
                   filled, fullAtCall, origKey, origSlot, swapped, before, histVars>>

Loop == PlaceAndReturn \/ SwapAndAdvance \/ Advance

Construct == WithCapacity(BuilderExpected)

Insert == \E p \in Pairs : InsertCall(p.key, p.value)

Next == Construct \/ Insert \/ PlaceAndReturn \/ SwapAndAdvance \/ Advance

Spec == Init /\ [][Next]_vars

\* Construction alone, for every expected count up to MaxExpected.
ConstructAny == \E size \in 0 .. MaxExpected : WithCapacity(size)

SpecCap == Init /\ [][ConstructAny]_vars

\* insert is straight-line code on one thread: once called, its loop keeps running.
FairSpec == Spec /\ WF_vars(Loop)

(***************************************************************************)
(* Hist                                                                    *)
(***************************************************************************)
Zeros(n) == [i \in 1 .. n |-> 0]

\* No call of average() since the histogram last changed.
NoAverage == [kind |-> "none", num |-> 0, den |-> 0]

\* Variant of Recorded: a value beyond the end is stored without the zeros before it.
RecordedNoZeros(c, val) ==
    IF val < Len(c)
    THEN [c EXCEPT ![val + 1] = @ + 1]
    ELSE c \o <<1>>

\* Hist::insert, lines 11-18: the vector after insert(val)
Recorded(c, val) ==
    IF val < Len(c)
    THEN [c EXCEPT ![val + 1] = @ + 1]
    ELSE (c \o Zeros(val - Len(c))) \o <<1>>

HistInsert(val) ==
    /\ Len(recorded) < MaxRecorded
    /\ counts' = Recorded(counts, val)
    /\ recorded' = Append(recorded, val)
    /\ avg' = NoAverage
    /\ UNCHANGED builderVars

\* line 33: one item of the rendering
Item(idx, val) == ToString(idx) \o " => " \o ToString(val) \o ", "

\* Variant of SkipWhileZero: nothing is skipped.
SkipNothing(c, i) == i

\* line 32, skip_while: the first position (1-based) from i on whose count is
\* not 0, or Len(c) + 1 when there is none
RECURSIVE SkipWhileZero(_, _)
SkipWhileZero(c, i) ==
    IF i > Len(c) THEN i
    ELSE IF c[i] = 0 THEN SkipWhileZero(c, i + 1) ELSE i

\* lines 32-34: the items written from position i on
RECURSIVE WriteFrom(_, _)
WriteFrom(c, i) ==
    IF i > Len(c) THEN "" ELSE Item(i - 1, c[i]) \o WriteFrom(c, i + 1)

\* Variant of Display: every zero count is left out (filter for skip_while).
RECURSIVE WriteNonZeroFrom(_, _)
WriteNonZeroFrom(c, i) ==
    IF i > Len(c) THEN ""
    ELSE (IF c[i] = 0 THEN "" ELSE Item(i - 1, c[i])) \o WriteNonZeroFrom(c, i + 1)

DisplayNonZero(c) == WriteNonZeroFrom(c, 1)

\* impl fmt::Display for Hist
Display(c) == WriteFrom(c, SkipWhileZero(c, 1))

RECURSIVE Gcd(_, _)
Gcd(a, b) == IF b = 0 THEN a ELSE Gcd(b, a % b)

\* The f32 division of line 25: the quotient as a fraction in lowest terms
\* (the rounding to 24 bits is left out), 0/0 being NaN and n/0 infinite;
\* no operand makes the division fail.
Quotient(n, d) ==
    IF d = 0
    THEN [kind |-> (IF n = 0 THEN "nan" ELSE "inf"), num |-> 0, den |-> 0]
    ELSE [kind |-> "finite", num |-> n \div Gcd(n, d), den |-> d \div Gcd(n, d)]

\* Variant of AverageNumerator: the indices are counted from 1.
RECURSIVE SumProductsOneBased(_, _)
SumProductsOneBased(c, i) ==
    IF i > Len(c) THEN 0 ELSE i * c[i] + SumProductsOneBased(c, i + 1)

AverageNumeratorOneBased(c) == SumProductsOneBased(c, 1)

\* lines 22-25: the sum of idx * count over enumerate()
RECURSIVE SumProducts(_, _)
SumProducts(c, i) ==
    IF i > Len(c) THEN 0 ELSE (i - 1) * c[i] + SumProducts(c, i + 1)

AverageNumerator(c) == SumProducts(c, 1)

\* line 26: the sum of the counts
RECURSIVE SumCounts(_, _)
SumCounts(c, i) == IF i > Len(c) THEN 0 ELSE c[i] + SumCounts(c, i + 1)

AverageDenominator(c) == SumCounts(c, 1)

\* Hist::average
Average(c) == Quotient(AverageNumerator(c), AverageDenominator(c))

HistAverage ==
    /\ avg' = Average(counts)
    /\ UNCHANGED <<counts, recorded, builderVars>>

HistNext == (\E val \in 0 .. MaxValue : HistInsert(val)) \/ HistAverage

SpecHist == Init /\ [][HistNext]_vars

(***************************************************************************)
(* Properties of the builder                                               *)
(***************************************************************************)
Slots == 0 .. Len(hashes) - 1
Cap == Len(hashes)
Ideal(h) == BitAnd(h, Mask)

\* Number of occupied slots holding the pair p.
TableCopies(p) == Cardinality({i \in Occupied : At(entries, i) = p})

\* C1: while the insertions do not exceed the capacity, a slot's hash is 0
\* exactly when insert has stored no entry in it, every nonzero hash is the
\* remapped hash of the key stored with it, and so is the hash carried with
\* the candidate inside the loop.
C1_HashesMatchEntries ==
    (pc # "new" /\ calls <= Cap) =>
        /\ \A i \in Slots :
            /\ (At(hashes, i) = 0) <=> (i \notin filled)
            /\ At(hashes, i) # 0 =>
                   At(hashes, i) = (IF RawHash(At(entries, i).key) = 0
                                    THEN 1 ELSE RawHash(At(entries, i).key))
        /\ pc = "loop" =>
               hash = (IF RawHash(entry.key) = 0 THEN 1 ELSE RawHash(entry.key))

\* C1 witness: a call that displaced an entry has returned, and the key whose
\* raw hash is 0 sits in an occupied slot with hash 1.
C1_Witness ==
    /\ pc = "idle"
    /\ swapped
    /\ \E i \in Slots :
        /\ i \in filled
        /\ RawHash(At(entries, i).key) = 0
        /\ At(hashes, i) = 1

\* C2: the value returned by insert is the displacement of the key passed to
\* the call: (slot where its entry was written - its ideal slot) & mask.
C2_ReturnIsOwnDisplacement ==
    (pc = "idle" /\ calls > 0) =>
        ret = BitAnd(WrappingSub(origSlot, Ideal(Hash(origKey))), Mask)

\* C4: an insert call started while a slot is empty returns.
C4_InsertTerminates == (pc = "loop" /\ ~fullAtCall) ~> (pc = "idle")

\* C4 witness: the insertion that fills the last slot has returned, after
\* displacing an entry.
C4_Witness ==
    /\ pc = "idle"
    /\ calls = MIN_TABLE_SIZE
    /\ Occupied = Slots
    /\ swapped

\* C5: an insert call started on a full table stays in the loop for ever: it
\* has not returned, no slot is empty, the position is inside the table, the
\* distance is at most the capacity and another iteration is possible.
C5_FullTableInsertNeverReturns ==
    fullAtCall =>
        /\ pc = "loop"
        /\ Occupied = Slots
        /\ pos \in Slots
        /\ dist <= Cap
        /\ ENABLED (SwapAndAdvance \/ Advance)
        /\ ~ENABLED PlaceAndReturn

\* C5 witness: such a call has gone round the table and has swapped.
C5_Witness ==
    /\ fullAtCall
    /\ pc = "loop"
    /\ swapped
    /\ dist = Cap

\* C6: between calls the number of occupied slots is the number of calls, and
\* the occupied slots hold exactly the bag of pairs passed to insert.
C6_EntriesAreTheInsertedPairs ==
    pc = "idle" =>
        /\ Cardinality(Occupied) = calls
        /\ \A i \in Occupied : BagIn(At(entries, i), inserted)
        /\ \A p \in BagToSet(inserted) : TableCopies(p) = CopiesIn(p, inserted)

\* C6 witness: a pair was inserted twice, another pair equals the default
\* entry, the last call displaced an entry, and all are in the table.
C6_Witness ==
    /\ pc = "idle"
    /\ swapped
    /\ CopiesIn(FillPair, inserted) >= 2
    /\ TableCopies(FillPair) >= 2
    /\ TableCopies(DefaultEntry) >= 1

AllIdealZero == \A p \in BagToSet(inserted) : Ideal(Hash(p.key)) = 0

\* C7: while every key inserted has ideal slot 0 and fewer keys than slots
\* were inserted, the k-th call (counted from 0) returns k without swapping,
\* the occupied slots are 0 .. k and slot i holds an entry of displacement i.
C7_AllKeysToSlotZero ==
    (pc = "idle" /\ calls >= 1 /\ calls < Cap /\ AllIdealZero) =>
        /\ ret = calls - 1
        /\ ~swapped
        /\ Occupied = 0 .. calls - 1
        /\ \A i \in Occupied : BitAnd(WrappingSub(i, At(hashes, i)), Mask) = i

\* C7 witness: two different keys with ideal slot 0 among at least four insertions.
C7_Witness ==
    /\ pc = "idle"
    /\ calls >= 4
    /\ calls < Cap
    /\ AllIdealZero
    /\ Cardinality({p.key : p \in BagToSet(inserted)}) = 2
    /\ ret = calls - 1

\* C12: in every iteration of the loop, on a full table too, pos is a slot
\* of the table, whose two vectors have the same length.
C12_PosInBounds ==
    pc = "loop" =>
        /\ 0 <= pos
        /\ pos < Len(hashes)
        /\ pos < Len(entries)
        /\ Len(hashes) = Len(entries)

\* C12 witness: an iteration at slot 0 reached by wrapping past the last
\* slot, after a swap.
C12_Witness ==
    /\ pc = "loop"
    /\ swapped
    /\ pos = 0
    /\ dist > 0

\* Displacement of the entry in slot j.
Displacement(j) == (j - At(hashes, j)) % Len(hashes)

\* C15: between calls, for cyclically adjacent occupied slots i and i + 1,
\* the displacement of slot i + 1 is at most the displacement of slot i plus 1.
C15_RobinHoodOrder ==
    (pc = "idle" /\ calls <= Len(hashes)) =>
        \A i \in Occupied :
            LET j == (i + 1) % Len(hashes) IN
            j \in Occupied => Displacement(j) <= Displacement(i) + 1

\* C15 witness: a call that swapped has returned, and an entry of
\* displacement 0 follows an entry of larger displacement.
C15_Witness ==
    /\ pc = "idle"
    /\ swapped
    /\ \E i \in Occupied :
        /\ (i + 1) % Len(hashes) \in Occupied
        /\ Displacement(i) >= 2
        /\ Displacement((i + 1) % Len(hashes)) = 0

\* C16: between calls, every slot on the cyclic path from the ideal slot of
\* a stored entry to the slot that holds it is occupied.
C16_ProbePathOccupied ==
    (pc = "idle" /\ calls <= Len(hashes)) =>
        \A i \in Occupied :
            \A k \in 0 .. Displacement(i) :
                (At(hashes, i) + k) % Len(hashes) \in Occupied

\* C16 witness: an entry displaced by a swap lies 3 or more slots from its ideal
\* slot.
C16_Witness ==
    /\ pc = "idle"
    /\ swapped
    /\ \E i \in Occupied : Displacement(i) >= 3 /\ At(hashes, i) % Len(hashes) # 0

OccupiedBefore == {i \in 0 .. Len(before.hashes) - 1 : At(before.hashes, i) # 0}
NewlyOccupied == Occupied \ OccupiedBefore

\* The slots on the cyclic path from slot a to slot b.
CyclicRange(a, b) == {(a + k) % Len(hashes) : k \in 0 .. ((b - a) % Len(hashes))}

C18_DistIsDisplacement ==
    /\ (pc = "loop" /\ ~fullAtCall) =>
        /\ dist = (pos - hash) % Len(hashes)
        /\ dist <= Len(hashes) - 1
    /\ (pc = "idle" /\ calls > 0) =>
        \A f \in NewlyOccupied : Displacement(f) = ret

\* C18 witness: after a swap the evicted entry is carried two or more slots from
\* its ideal slot.
C18_Witness ==
    /\ pc = "loop"
    /\ ~fullAtCall
    /\ swapped
    /\ dist >= 2
    /\ entry.key # origKey

(***************************************************************************)
(* Properties of with_capacity                                             *)
(***************************************************************************)
CeilDiv(a, b) == (a + b - 1) \div b

\* C3: for an expected count n in 1 .. 1000 the capacity is
\* max(32, next_power_of_two(ceil(n * 10 / 9))), hence >= ceil(n * 10 / 9).
C3_CapacityCoversLoadFactor ==
    (pc = "idle" /\ expected \in 1 .. 1000) =>
        /\ Cap >= CeilDiv(expected * 10, 9)
        /\ Cap = Max(MIN_TABLE_SIZE, NextPowerOfTwo(CeilDiv(expected * 10, 9)))

IsPowerOfTwo(n) == \E k \in 0 .. 29 : n = 2^k

\* C11: for every expected count, 0 included, the table made by with_capacity
\* has hashes and entries of one length, a power of two that is at least 32,
\* every hash 0 and every entry the default entry.
C11_FreshTable ==
    pc = "idle" =>
        /\ Len(hashes) = Len(entries)
        /\ IsPowerOfTwo(Len(hashes))
        /\ Len(hashes) >= 32
        /\ \A i \in 1 .. Len(hashes) : hashes[i] = 0
        /\ \A i \in 1 .. Len(entries) : entries[i] = [key |-> 0, value |-> ""]

\* C11 witness: the table for the expected count 0.
C11_Witness ==
    /\ pc = "idle"
    /\ expected = 0
    /\ Len(hashes) = 32
    /\ Len(entries) = 32

\* C17: for every expected count n the capacity is greater than n, so the n
\* announced insertions leave at least one slot empty.
C17_CapacityExceedsExpected ==
    pc = "idle" =>
        /\ Len(hashes) > expected
        /\ Len(hashes) - expected >= 1

\* C17 witness: the table for the expected count 922, a capacity of 1024.
C17_Witness ==
    /\ pc = "idle"
    /\ expected = 922
    /\ Len(hashes) = 1024

(***************************************************************************)
(* Properties of the histogram                                             *)
(***************************************************************************)
Example == <<0, 0, 3, 3, 3>>

\* C8 as claimed: after inserting 0, 0, 3, 3, 3 the rendering is
\* "0 => 2, 3 => 3, ", the zero counts of 1 and 2 being left out.
C8_ReportOmitsZeroCounts ==
    recorded = Example => Display(counts) = "0 => 2, 3 => 3, "

\* C8 as amended: after inserting 0, 0, 3, 3, 3 the rendering is
\* "0 => 2, 1 => 0, 2 => 0, 3 => 3, ": four items, the zero counts of 1 and 2
\* included.
C8_ReportOfExample ==
    recorded = Example => Display(counts) = "0 => 2, 1 => 0, 2 => 0, 3 => 3, "

\* C8 witness: the five values have been inserted.
C8_Witness == recorded = Example /\ counts = <<2, 0, 0, 3>>

NonZeroIndices == {i \in 0 .. Len(counts) - 1 : At(counts, i) # 0}
FirstNonZero == CHOOSE i \in NonZeroIndices : \A j \in NonZeroIndices : i <= j

RECURSIVE ItemsFromTo(_, _)
ItemsFromTo(lo, hi) ==
    IF lo > hi THEN ""
    ELSE ((ToString(lo) \o " => ") \o (ToString(At(counts, lo)) \o ", "))
             \o ItemsFromTo(lo + 1, hi)

\* C9: the rendering is empty when no count is nonzero, and otherwise one
\* item "<index> => <count>, " for each index from the first nonzero count
\* to the last index, in increasing order; inserting 2, 2 renders "2 => 2, ".
C9_ReportFromFirstNonZero ==
    /\ Display(counts) = (IF NonZeroIndices = {} THEN ""
                          ELSE ItemsFromTo(FirstNonZero, Len(counts) - 1))
    /\ recorded = <<2, 2>> => Display(counts) = "2 => 2, "

\* C9 witness: a zero count lies before the first nonzero count and another
\* after it.
C9_Witness ==
    /\ Len(counts) >= 4
    /\ At(counts, 0) = 0
    /\ At(counts, 1) # 0
    /\ At(counts, 2) = 0

Times(v) == Cardinality({j \in DOMAIN recorded : recorded[j] = v})
LargestRecorded == CHOOSE v \in 0 .. MaxValue :
                       /\ Times(v) > 0
                       /\ \A w \in 0 .. MaxValue : Times(w) > 0 => w <= v

C10_CountsAreTimes ==
    /\ Len(counts) = (IF recorded = <<>> THEN 0 ELSE 1 + LargestRecorded)
    /\ \A v \in 0 .. Len(counts) - 1 : At(counts, v) = Times(v)
    /\ recorded = <<5>> => counts = <<0, 0, 0, 0, 0, 1>>

C10_InsertChangesOneCount ==
    counts' # counts =>
        /\ Len(counts') >= Len(counts)
        /\ LET v == recorded'[Len(recorded')] IN
            /\ At(counts', v) = (IF v < Len(counts) THEN At(counts, v) + 1 ELSE 1)
            /\ \A i \in 0 .. Len(counts') - 1 :
                   i # v => At(counts', i) = (IF i < Len(counts) THEN At(counts, i) ELSE 0)

\* C10: counts has length 0 before any insert and 1 + the largest value
\* recorded afterwards, counts[v] is the number of times v was recorded, and
\* an insert of v never shortens counts and changes only counts[v], apart
\* from the zeros it appends; insert(5) alone gives <<0, 0, 0, 0, 0, 1>>.
C10_CountsInvariant == []C10_CountsAreTimes /\ [][C10_InsertChangesOneCount]_vars

\* C10 witness: an insert beyond the end has appended zeros, and a value was
\* recorded twice.
C10_Witness ==
    /\ Len(recorded) >= 3
    /\ Len(counts) >= 3
    /\ \E v \in 0 .. Len(counts) - 1 : At(counts, v) = 0
    /\ \E v \in 0 .. Len(counts) - 1 : At(counts, v) >= 2

RECURSIVE SumRecorded(_)
SumRecorded(i) == IF i > Len(recorded) THEN 0 ELSE recorded[i] + SumRecorded(i + 1)

\* C14: the numerator of average() is the sum of the recorded values and its
\* denominator the number of insert calls; after 0, 0, 3, 3, 3 the result is
\* 9 / 5; on a histogram never inserted into both sums are 0 and the result
\* of the call is 0 / 0, not a failure.
C14_AverageIsMean ==
    /\ AverageNumerator(counts) = SumRecorded(1)
    /\ AverageDenominator(counts) = Len(recorded)
    /\ avg.kind # "none" =>
        /\ recorded # <<>> =>
            /\ avg.kind = "finite"
            /\ avg.num * Len(recorded) = avg.den * SumRecorded(1)
        /\ recorded = Example => avg.num = 9 /\ avg.den = 5
        /\ recorded = <<>> => avg.kind = "nan"

\* C14 witness: average() was called after inserting 0, 0, 3, 3, 3.
C14_Witness ==
    /\ recorded = Example
    /\ avg.kind = "finite"
    /\ avg.num = 9

====
